---- MODULE Spec2Model ----
(***************************************************************************)
(* Model of encoding/kzgrs/verifier/verifier.go: the Verifier facade with  *)
(* its mutex-guarded cache of ParametrizedVerifier contexts, the           *)
(* low-degree proof check, the frame (multi-reveal) proof check and the    *)
(* decode glue.                                                            *)
(*                                                                         *)
(* Group elements are represented by their discrete logarithm in the       *)
(* scalar field Fr, so [a]_1 and [a]_2 are both the scalar a, the group    *)
(* operation is addition mod the field order and the pairing e([a],[b]) is *)
(* the product a*b.  The SRS is the sequence of powers of the secret.      *)
(***************************************************************************)
EXTENDS Integers, Sequences, FiniteSets, TLC

VARIABLES
    mu,                     \* Verifier.mu: 0 when unlocked, else the holder
    ParametrizedVerifiers,  \* Verifier.ParametrizedVerifiers: params -> ref (0 = no entry)
    heap,                   \* the ParametrizedVerifier objects allocated so far; a ref is an index
    Srs,                    \* Verifier.Srs
    ext,                    \* what the external constructors answer for each valid params
    calls,                  \* number of calls started so far
    pc, op, arg,            \* per thread: position, entry point, arguments
    ver, err, ind, out,     \* per thread: locals verifier/encoder, err, ind and the bytes returned
    coder,                  \* per thread: the arguments handed to the erasure coder's Decode
    checked                 \* per thread: the single-frame checks of this call, in order

vars == <<mu, ParametrizedVerifiers, heap, Srs, ext, calls, pc, op, arg, ver, err, ind, out,
          coder, checked>>

shared == <<mu, ParametrizedVerifiers, heap, Srs, ext>>

----------------------------------------------------------------------------
(* Bounds of the model *)

MaxCalls == 3
MaxSeqCalls == 1
MaxBatch == 2
UintBits == 4
SRSOrder == 4

Threads == {1, 2}

----------------------------------------------------------------------------
(* The scalar field and the groups (discrete-log representation) *)

Fr == 0..16

Modulus == Cardinality(Fr)

RECURSIVE Pow(_, _)
Pow(b, e) == IF e = 0 THEN 1 ELSE (b * Pow(b, e - 1)) % Modulus

RECURSIVE Pow2(_)
Pow2(e) == IF e = 0 THEN 1 ELSE 2 * Pow2(e - 1)

AddFr(a, b) == (a + b) % Modulus
SubFr(a, b) == (a + Modulus - (b % Modulus)) % Modulus
MulModFr(a, b) == (a * b) % Modulus

GenG1 == 1
GenG2 == 1
ONE == 1

\* bls.PairingsVerify: e(a1, a2) == e(b1, b2)
PairingsVerify(a1, a2, b1, b2) == MulModFr(a1, a2) = MulModFr(b1, b2)

\* the secret of the trusted setup
Secret == CHOOSE s \in Fr : s > 1 /\ \A k \in 1..(Modulus - 2) : Pow(s, k) # 1

\* width of the unsigned integers of the model (uint64 in the code)
UintMod == Pow2(UintBits)
U64(x) == x % UintMod

SRSNumberToLoad == SRSOrder

----------------------------------------------------------------------------
(* Errors: the empty string is Go's nil error *)

Nil == ""
ErrInvalidParams == "invalid encoding params"
ErrKZGSettings == "could not create kzg settings"
ErrEncoder == "could not create encoder"
ErrCosetIndex == "cannot create number of frame higher than possible"
ErrReadG1 == "requested G1 power is larger than SRSOrder"
ErrReadG2 == "requested G2 power is larger than SRSOrder"
ErrLowDegree == "low degree proof fails"
ErrMultireveal == "multireveal proof fails"
ErrDecode == "decode failed"

----------------------------------------------------------------------------
(* encoding.EncodingParams and the inputs of the model *)

pA == [NumChunks |-> 2, ChunkLength |-> 2]
pB == [NumChunks |-> 2, ChunkLength |-> 1]
pInv == [NumChunks |-> 3, ChunkLength |-> 1]

AllParams == {pA, pB, pInv}

NumEvaluations(params) == U64(params.NumChunks * params.ChunkLength)

IsPowerOfTwo(n) == \E k \in 0..UintBits : n = Pow2(k)

\* encoding.EncodingParams.Validate
Validate(params) ==
    /\ params.NumChunks > 0
    /\ params.ChunkLength > 0
    /\ IsPowerOfTwo(NumEvaluations(params))

ValidParams == {p \in AllParams : Validate(p)}

\* What kzg.NewKZGSettings and rs.NewEncoder answer for a valid params is a fixed
\* function of the params; the model ranges over these answers.
ExtOutcomes == {"ok", "ks", "enc"}
ExtBehaviours == {[p \in ValidParams |-> IF p = pB THEN o ELSE "ok"] : o \in ExtOutcomes}

\* uint8(math.Log2(float64(n)))
Log2(n) == CHOOSE k \in 0..UintBits : Pow2(k) <= n /\ n < Pow2(k + 1)

\* kzg.Scale2RootOfUnity: a root of unity of order 2^k, each the square of the next
Scale2RootOfUnity == [k \in 0..4 |-> <<1, 16, 4, 2, 6>>[k + 1]]

\* kzg.NewFFTSettings
NewFFTSettings(n) ==
    [MaxWidth |-> Pow2(n),
     ExpandedRootsOfUnity |-> [i \in 0..Pow2(n) |-> Pow(Scale2RootOfUnity[n], i)]]

\* kzg.NewSrs over the G1 points read by NewVerifier
NewSrs == [G1 |-> [i \in 0..(SRSNumberToLoad - 1) |-> Pow(Secret, i)]]

\* kzgrs.ReadG1Point
ReadG1Point(n) ==
    IF n > SRSOrder THEN [err |-> ErrReadG1, pt |-> 0]
    ELSE [err |-> Nil, pt |-> Pow(Secret, n)]

\* kzgrs.ReadG2Point
ReadG2Point(n) ==
    IF n > SRSOrder THEN [err |-> ErrReadG2, pt |-> 0]
    ELSE [err |-> Nil, pt |-> Pow(Secret, n)]

\* rsutils.ReverseBitsLimited: value with its log2(length) low bits reversed
RECURSIVE RevBits(_, _)
RevBits(v, bits) ==
    IF bits = 0 THEN 0 ELSE (v % 2) * Pow2(bits - 1) + RevBits(v \div 2, bits - 1)

ReverseBitsLimited(length, value) == RevBits(value, Log2(length))

\* rs.GetLeadingCosetIndex
GetLeadingCosetIndex(i, numChunks) ==
    IF i < numChunks THEN [err |-> Nil, j |-> ReverseBitsLimited(numChunks, i)]
    ELSE [err |-> ErrCosetIndex, j |-> 0]

\* bls.LinCombG1 over the first Len(coeffs) points
RECURSIVE LinCombG1(_, _, _)
LinCombG1(points, coeffs, k) ==
    IF k = 0 THEN 0
    ELSE AddFr(LinCombG1(points, coeffs, k - 1), MulModFr(coeffs[k], points[k - 1]))

NoVer == [NumChunks |-> 0, ChunkLength |-> 0, ExpandedRootsOfUnity |-> <<>>]

\* newKzgVerifier without its params.Validate() guard
newKzgVerifierUnvalidated(params) ==
    [ver |-> [NumChunks |-> params.NumChunks,
              ChunkLength |-> params.ChunkLength,
              ExpandedRootsOfUnity |->
                  NewFFTSettings(Log2(NumEvaluations(params))).ExpandedRootsOfUnity],
     err |-> Nil]

\* Verifier.newKzgVerifier
newKzgVerifier(params) ==
    IF ~Validate(params) THEN [ver |-> NoVer, err |-> ErrInvalidParams]
    ELSE LET n == Log2(NumEvaluations(params))
             fs == NewFFTSettings(n)
         IN  IF ext[params] = "ks" THEN [ver |-> NoVer, err |-> ErrKZGSettings]
             ELSE IF ext[params] = "enc" THEN [ver |-> NoVer, err |-> ErrEncoder]
             ELSE [ver |-> [NumChunks |-> params.NumChunks,
                            ChunkLength |-> params.ChunkLength,
                            ExpandedRootsOfUnity |-> fs.ExpandedRootsOfUnity],
                   err |-> Nil]

\* VerifyLowDegreeProof
VerifyLowDegreeProof(lengthCommit, proof, g1Challenge) ==
    PairingsVerify(g1Challenge, lengthCommit, GenG1, proof)

\* the shift of the comment above VerifyLowDegreeProof, SRSOrder-1 - claimedDegree,
\* taken with the length in the place of the degree
ChallengeIndexDegreeShift(length) == U64(SRSOrder - 1 - length)

\* The index Verifier.VerifyCommit asks the SRS for
ChallengeIndex(length) == U64(SRSOrder - length)

\* Verifier.VerifyCommit
VerifyCommit(lengthCommit, lowDegreeProof, length) ==
    LET g1Challenge == ReadG1Point(ChallengeIndex(length))
    IN  IF g1Challenge.err # Nil THEN g1Challenge.err
        ELSE IF ~VerifyLowDegreeProof(lengthCommit, lowDegreeProof, g1Challenge.pt)
             THEN ErrLowDegree
             ELSE Nil

\* Verifier.VerifyBlobLength
VerifyBlobLength(commitments) ==
    VerifyCommit(commitments.LengthCommitment, commitments.LengthProof,
                 U64(commitments.Length))

\* the loop of VerifyFrame: xPow after i multiplications by x, starting from ONE
RECURSIVE XPow(_, _)
XPow(x, i) == IF i = 0 THEN ONE ELSE MulModFr(XPow(x, i - 1), x)

\* VerifyFrame (the package-level function)
VerifyFrame(f, ks, commitment, x, g2Atn) ==
    LET xPow == XPow(x, Len(f.Coeffs))
        xn2 == MulModFr(GenG2, xPow)
        xnMinusYn == SubFr(g2Atn, xn2)
        is1 == LinCombG1(ks.Srs.G1, f.Coeffs, Len(f.Coeffs))
        commitMinusInterpolation == SubFr(commitment, is1)
    IN  PairingsVerify(commitMinusInterpolation, GenG2, f.Proof, xnMinusYn)

\* VerifyFrame reading the G2 point before it derives the coset index
PVerifyFrameReadFirst(v, commit, f, index) ==
    LET c == GetLeadingCosetIndex(U64(index), v.NumChunks)
        g2Atn == ReadG2Point(U64(Len(f.Coeffs)))
    IN  IF g2Atn.err # Nil THEN [err |-> g2Atn.err, steps |-> <<"readG2">>]
        ELSE IF c.err # Nil THEN [err |-> c.err, steps |-> <<"readG2", "coset">>]
        ELSE IF ~VerifyFrame(f, [Srs |-> Srs], commit, v.ExpandedRootsOfUnity[c.j], g2Atn.pt)
             THEN [err |-> ErrMultireveal, steps |-> <<"readG2", "coset", "pairing">>]
             ELSE [err |-> Nil, steps |-> <<"readG2", "coset", "pairing">>]

\* ParametrizedVerifier.VerifyFrame: the error it returns and, in order, the steps
\* it performed (the coset index, the read of the G2 point, the pairing check)
PVerifyFrame(v, commit, f, index) ==
    LET c == GetLeadingCosetIndex(U64(index), v.NumChunks)
        g2Atn == ReadG2Point(U64(Len(f.Coeffs)))
    IN  IF c.err # Nil THEN [err |-> c.err, steps |-> <<"coset">>]
        ELSE IF g2Atn.err # Nil THEN [err |-> g2Atn.err, steps |-> <<"coset", "readG2">>]
        ELSE IF ~VerifyFrame(f, [Srs |-> Srs], commit, v.ExpandedRootsOfUnity[c.j], g2Atn.pt)
             THEN [err |-> ErrMultireveal, steps |-> <<"coset", "readG2", "pairing">>]
             ELSE [err |-> Nil, steps |-> <<"coset", "readG2", "pairing">>]

\* toUint64Array
toUint64Array(chunkIndices) == [i \in 1..Len(chunkIndices) |-> U64(chunkIndices[i])]

\* the frames Verifier.Decode builds for the coder: the coefficients alone
RsFrames(chunks) == [i \in 1..Len(chunks) |-> [Coeffs |-> chunks[i].Coeffs]]

RECURSIVE Flatten(_, _, _)
Flatten(frames, indices, k) ==
    IF k = 0 THEN <<>>
    ELSE Flatten(frames, indices, k - 1) \o <<indices[k]>> \o frames[k].Coeffs

Take(s, n) == IF n >= Len(s) THEN s ELSE SubSeq(s, 1, n)

\* rs.Encoder.Decode of the context v: a stand-in that reads every argument
EncoderDecode(v, frames, indices, maxInputSize) ==
    IF \/ Len(frames) = 0
       \/ \E i \in 1..Len(frames) : \/ indices[i] >= v.NumChunks
                                     \/ Len(frames[i].Coeffs) # v.ChunkLength
    THEN [bytes |-> <<>>, err |-> ErrDecode]
    ELSE [bytes |-> Take(Flatten(frames, indices, Len(frames)), maxInputSize), err |-> Nil]

----------------------------------------------------------------------------
(* Inputs *)

\* P(X) = 1 + 2X + 3X^2 + X^3 committed under the secret: P(3) = 61
Commitment == 61 % Modulus

\* the two honest chunks of P under pA, a chunk with a wrong proof, and a chunk
\* with more coefficients than the SRS has G2 powers
frame0 == [Coeffs |-> <<4, 3>>, Proof |-> 6]
frame1 == [Coeffs |-> <<15, 1>>, Proof |-> 6]
frameBad == [Coeffs |-> <<4, 3>>, Proof |-> 5]
frameLong == [Coeffs |-> [i \in 1..(SRSOrder + 1) |-> 0], Proof |-> 0]

\* (frame, chunk number) pairs: the honest ones, two chunks swapped, a wrong proof,
\* a chunk number out of range, a frame too long for the SRS, and both at once
Pairs ==
    {<<frame0, 0>>, <<frame1, 1>>, <<frame0, 1>>, <<frameBad, 0>>, <<frame0, 2>>,
     <<frameLong, 1>>, <<frameLong, 2>>}

RECURSIVE SeqsUpTo(_, _)
SeqsUpTo(S, n) ==
    IF n = 0 THEN {<<>>}
    ELSE LET shorter == SeqsUpTo(S, n - 1)
         IN  shorter \cup {Append(q, x) : q \in {r \in shorter : Len(r) = n - 1}, x \in S}

\* a batch is a sequence of (frame, index) pairs: the two lists have equal length
Batches == SeqsUpTo(Pairs, MaxBatch)
SmallBatches ==
    {<<>>, <<<<frame0, 0>>>>, <<<<frameBad, 0>>>>, <<<<frame0, 0>>, <<frameBad, 1>>>>}

FramesOf(b) == [i \in 1..Len(b) |-> b[i][1]]
IndicesOf(b) == [i \in 1..Len(b) |-> b[i][2]]

MaxInputSizes == {2, 6}

LengthCommits == {0, 1, 9}
LengthProofs == {0, 1, 9}
Lengths == 0..(UintMod - 1)

NoArg ==
    [params |-> pInv, frames |-> <<>>, indices |-> <<>>, commit |-> 0,
     maxInputSize |-> 0, lengthCommit |-> 0, lengthProof |-> 0, length |-> 0]

----------------------------------------------------------------------------
(* The state machine *)

Init ==
    /\ mu = 0
    /\ ParametrizedVerifiers = [p \in AllParams |-> 0]
    /\ heap = <<>>
    /\ Srs = NewSrs
    /\ ext \in ExtBehaviours
    /\ calls = 0
    /\ pc = [t \in Threads |-> "idle"]
    /\ op = [t \in Threads |-> "none"]
    /\ arg = [t \in Threads |-> NoArg]
    /\ ver = [t \in Threads |-> 0]
    /\ err = [t \in Threads |-> Nil]
    /\ ind = [t \in Threads |-> 0]
    /\ out = [t \in Threads |-> <<>>]
    /\ coder = [t \in Threads |-> <<>>]
    /\ checked = [t \in Threads |-> <<>>]

\* a thread enters an entry point with its arguments
Enter(t, o, a, at) ==
    /\ pc[t] = "idle"
    /\ calls < MaxCalls
    /\ calls' = calls + 1
    /\ pc' = [pc EXCEPT ![t] = at]
    /\ op' = [op EXCEPT ![t] = o]
    /\ arg' = [arg EXCEPT ![t] = a]
    /\ UNCHANGED <<shared, ver, err, ind, out, coder, checked>>

CallGetKzgVerifier(t, params) ==
    Enter(t, "GetKzgVerifier", [NoArg EXCEPT !.params = params], "lock")

CallNewKzgVerifier(t, params) ==
    Enter(t, "NewKzgVerifier", [NoArg EXCEPT !.params = params], "lock")

CallVerifyFrames(t, frames, indices, commit, params) ==
    Enter(t, "VerifyFrames",
          [NoArg EXCEPT !.params = params, !.frames = frames, !.indices = indices,
                        !.commit = commit], "lock")

CallDecode(t, chunks, indices, params, maxInputSize) ==
    Enter(t, "Decode",
          [NoArg EXCEPT !.params = params, !.frames = chunks, !.indices = indices,
                        !.maxInputSize = maxInputSize], "lock")

\* a Lock that does not wait for the holder
LockWithoutExclusion(t) ==
    /\ pc[t] = "lock"
    /\ mu' = t
    /\ pc' = [pc EXCEPT ![t] = IF op[t] = "NewKzgVerifier" THEN "construct" ELSE "lookup"]
    /\ UNCHANGED <<ParametrizedVerifiers, heap, Srs, ext, calls, op, arg, ver, err, ind, out, coder, checked>>

\* g.mu.Lock() of GetKzgVerifier and of NewKzgVerifier
Lock(t) ==
    /\ pc[t] = "lock"
    /\ mu = 0
    /\ mu' = t
    /\ pc' = [pc EXCEPT ![t] = IF op[t] = "NewKzgVerifier" THEN "construct" ELSE "lookup"]
    /\ UNCHANGED <<ParametrizedVerifiers, heap, Srs, ext, calls, op, arg, ver, err, ind, out, coder, checked>>

\* GetKzgVerifier ignoring the ok of its map lookup
LookupAlwaysMiss(t) ==
    /\ pc[t] = "lookup"
    /\ IF ~Validate(arg[t].params)
       THEN /\ err' = [err EXCEPT ![t] = ErrInvalidParams]
            /\ ver' = [ver EXCEPT ![t] = 0]
            /\ pc' = [pc EXCEPT ![t] = "unlock"]
       ELSE /\ pc' = [pc EXCEPT ![t] = "construct"]
            /\ UNCHANGED <<ver, err>>
    /\ UNCHANGED <<shared, calls, op, arg, ind, out, coder, checked>>

\* GetKzgVerifier: params.Validate() and the lookup in the cache
Lookup(t) ==
    /\ pc[t] = "lookup"
    /\ IF ~Validate(arg[t].params)
       THEN /\ err' = [err EXCEPT ![t] = ErrInvalidParams]
            /\ ver' = [ver EXCEPT ![t] = 0]
            /\ pc' = [pc EXCEPT ![t] = "unlock"]
       ELSE IF ParametrizedVerifiers[arg[t].params] # 0
       THEN /\ ver' = [ver EXCEPT ![t] = ParametrizedVerifiers[arg[t].params]]
            /\ err' = [err EXCEPT ![t] = Nil]
            /\ pc' = [pc EXCEPT ![t] = "unlock"]
       ELSE /\ pc' = [pc EXCEPT ![t] = "construct"]
            /\ UNCHANGED <<ver, err>>
    /\ UNCHANGED <<shared, calls, op, arg, ind, out, coder, checked>>

\* NewKzgVerifier storing its context like GetKzgVerifier does
CachesAlways(o) == TRUE

\* whether the entry point stores what it constructs in the cache
Caches(o) == o # "NewKzgVerifier"

\* g.newKzgVerifier(params), and in GetKzgVerifier the insert when err == nil
Construct(t) ==
    /\ pc[t] = "construct"
    /\ LET r == newKzgVerifier(arg[t].params)
           ref == Len(heap) + 1
       IN  IF r.err = Nil
           THEN /\ heap' = Append(heap, [obj |-> r.ver, params |-> arg[t].params,
                                      by |-> IF Caches(op[t]) THEN "GetKzgVerifier"
                                                             ELSE "NewKzgVerifier"])
                /\ ver' = [ver EXCEPT ![t] = ref]
                /\ err' = [err EXCEPT ![t] = Nil]
                /\ ParametrizedVerifiers' =
                       IF Caches(op[t])
                       THEN [ParametrizedVerifiers EXCEPT ![arg[t].params] = ref]
                       ELSE ParametrizedVerifiers
           ELSE /\ ver' = [ver EXCEPT ![t] = 0]
                /\ err' = [err EXCEPT ![t] = r.err]
                /\ UNCHANGED <<heap, ParametrizedVerifiers>>
    /\ pc' = [pc EXCEPT ![t] = "unlock"]
    /\ UNCHANGED <<mu, Srs, ext, calls, op, arg, ind, out, coder, checked>>

\* where the caller of GetKzgVerifier goes on after it returned
AfterGet(t) ==
    IF op[t] \in {"GetKzgVerifier", "NewKzgVerifier"} \/ err[t] # Nil THEN "done"
    ELSE IF op[t] = "VerifyFrames" THEN "loop"
    ELSE "decode"

\* an Unlock written before each return instead of deferred, and forgotten on
\* the error returns
UnlockForgottenOnError(t) ==
    /\ pc[t] = "unlock"
    /\ mu' = IF err[t] # Nil THEN mu ELSE 0
    /\ pc' = [pc EXCEPT ![t] = AfterGet(t)]
    /\ ind' = [ind EXCEPT ![t] = 1]
    /\ UNCHANGED <<ParametrizedVerifiers, heap, Srs, ext, calls, op, arg, ver, err, out, coder, checked>>

\* the deferred g.mu.Unlock() and the return to the caller
Unlock(t) ==
    /\ pc[t] = "unlock"
    /\ mu' = 0
    /\ pc' = [pc EXCEPT ![t] = AfterGet(t)]
    /\ ind' = [ind EXCEPT ![t] = 1]
    /\ UNCHANGED <<ParametrizedVerifiers, heap, Srs, ext, calls, op, arg, ver, err, out, coder, checked>>

\* a loop that remembers the error and goes on to the next frame
VerifyFramesStepNoShortCircuit(t) ==
    /\ pc[t] = "loop"
    /\ IF ind[t] > Len(arg[t].frames)
       THEN /\ pc' = [pc EXCEPT ![t] = "done"]
            /\ UNCHANGED <<err, ind, checked>>
       ELSE LET r == PVerifyFrame(heap[ver[t]].obj, arg[t].commit,
                                  arg[t].frames[ind[t]], arg[t].indices[ind[t]])
            IN  /\ checked' = [checked EXCEPT ![t] =
                                  Append(@, [pos |-> ind[t], err |-> r.err, steps |-> r.steps])]
                /\ err' = [err EXCEPT ![t] = IF r.err # Nil THEN r.err ELSE @]
                /\ ind' = [ind EXCEPT ![t] = ind[t] + 1]
                /\ UNCHANGED pc
    /\ UNCHANGED <<shared, calls, op, arg, ver, out, coder>>

\* a loop that returns an error naming the position of the failing frame
ErrAtPosition == <<"frame 1 fails", "frame 2 fails", "frame 3 fails", "frame 4 fails">>
VerifyFramesStepNamingPosition(t) ==
    /\ pc[t] = "loop"
    /\ IF ind[t] > Len(arg[t].frames)
       THEN /\ pc' = [pc EXCEPT ![t] = "done"]
            /\ UNCHANGED <<err, ind, checked>>
       ELSE LET r == PVerifyFrame(heap[ver[t]].obj, arg[t].commit,
                                  arg[t].frames[ind[t]], arg[t].indices[ind[t]])
            IN  /\ checked' = [checked EXCEPT ![t] =
                                  Append(@, [pos |-> ind[t], err |-> r.err, steps |-> r.steps])]
                /\ IF r.err # Nil
                   THEN /\ err' = [err EXCEPT ![t] = ErrAtPosition[ind[t]]]
                        /\ pc' = [pc EXCEPT ![t] = "done"]
                        /\ UNCHANGED ind
                   ELSE /\ ind' = [ind EXCEPT ![t] = ind[t] + 1]
                        /\ UNCHANGED <<err, pc>>
    /\ UNCHANGED <<shared, calls, op, arg, ver, out, coder>>

\* one iteration of the loop of VerifyFrames, or its return nil after the last
VerifyFramesStep(t) ==
    /\ pc[t] = "loop"
    /\ IF ind[t] > Len(arg[t].frames)
       THEN /\ pc' = [pc EXCEPT ![t] = "done"]
            /\ UNCHANGED <<err, ind, checked>>
       ELSE LET r == PVerifyFrame(heap[ver[t]].obj, arg[t].commit,
                                  arg[t].frames[ind[t]], arg[t].indices[ind[t]])
            IN  /\ checked' = [checked EXCEPT ![t] =
                                  Append(@, [pos |-> ind[t], err |-> r.err, steps |-> r.steps])]
                /\ IF r.err # Nil
                   THEN /\ err' = [err EXCEPT ![t] = r.err]
                        /\ pc' = [pc EXCEPT ![t] = "done"]
                        /\ UNCHANGED ind
                   ELSE /\ ind' = [ind EXCEPT ![t] = ind[t] + 1]
                        /\ UNCHANGED <<err, pc>>
    /\ UNCHANGED <<shared, calls, op, arg, ver, out, coder>>

\* Decode handing the coder no limit
DecodeArgsNoLimit(chunks, indices, maxInputSize) ==
    <<RsFrames(chunks), toUint64Array(indices), UintMod - 1>>

\* what Verifier.Decode hands to the coder
DecodeArgs(chunks, indices, maxInputSize) ==
    <<RsFrames(chunks), toUint64Array(indices), maxInputSize>>

\* Verifier.Decode after GetKzgVerifier: encoder.Decode(frames, indices, maxInputSize)
DecodeStep(t) ==
    /\ pc[t] = "decode"
    /\ LET a == DecodeArgs(arg[t].frames, arg[t].indices, arg[t].maxInputSize)
           r == EncoderDecode(heap[ver[t]].obj, a[1], a[2], a[3])
       IN  /\ coder' = [coder EXCEPT ![t] = <<a>>]
           /\ out' = [out EXCEPT ![t] = r.bytes]
           /\ err' = [err EXCEPT ![t] = r.err]
    /\ pc' = [pc EXCEPT ![t] = "done"]
    /\ UNCHANGED <<shared, calls, op, arg, ver, ind, checked>>

\* Verifier.VerifyCommit: no lock, no shared state written
DoVerifyCommit(t, lengthCommit, lowDegreeProof, length) ==
    /\ pc[t] = "idle"
    /\ calls < MaxCalls
    /\ calls' = calls + 1
    /\ op' = [op EXCEPT ![t] = "VerifyCommit"]
    /\ arg' = [arg EXCEPT ![t] = [NoArg EXCEPT !.lengthCommit = lengthCommit,
                                               !.lengthProof = lowDegreeProof,
                                               !.length = length]]
    /\ err' = [err EXCEPT ![t] = VerifyCommit(lengthCommit, lowDegreeProof, length)]
    /\ pc' = [pc EXCEPT ![t] = "done"]
    /\ UNCHANGED <<shared, ver, ind, out, coder, checked>>

\* Verifier.VerifyBlobLength
DoVerifyBlobLength(t, commitments) ==
    /\ pc[t] = "idle"
    /\ calls < MaxCalls
    /\ calls' = calls + 1
    /\ op' = [op EXCEPT ![t] = "VerifyBlobLength"]
    /\ arg' = [arg EXCEPT ![t] = [NoArg EXCEPT !.lengthCommit = commitments.LengthCommitment,
                                               !.lengthProof = commitments.LengthProof,
                                               !.length = commitments.Length]]
    /\ err' = [err EXCEPT ![t] = VerifyBlobLength(commitments)]
    /\ pc' = [pc EXCEPT ![t] = "done"]
    /\ UNCHANGED <<shared, ver, ind, out, coder, checked>>

\* the caller takes the result; the thread is free for its next call
Return(t) ==
    /\ pc[t] = "done"
    /\ pc' = [pc EXCEPT ![t] = "idle"]
    /\ op' = [op EXCEPT ![t] = "none"]
    /\ arg' = [arg EXCEPT ![t] = NoArg]
    /\ ver' = [ver EXCEPT ![t] = 0]
    /\ err' = [err EXCEPT ![t] = Nil]
    /\ ind' = [ind EXCEPT ![t] = 0]
    /\ out' = [out EXCEPT ![t] = <<>>]
    /\ coder' = [coder EXCEPT ![t] = <<>>]
    /\ checked' = [checked EXCEPT ![t] = <<>>]
    /\ UNCHANGED <<shared, calls>>

Step(t) ==
    \/ Lock(t)
    \/ Lookup(t)
    \/ Construct(t)
    \/ Unlock(t)
    \/ VerifyFramesStep(t)
    \/ DecodeStep(t)
    \/ Return(t)

\* concurrent callers on one Verifier
Next ==
    \/ \E t \in Threads, p \in AllParams : CallGetKzgVerifier(t, p)
    \/ \E t \in Threads, p \in AllParams : CallNewKzgVerifier(t, p)
    \/ \E t \in Threads, p \in AllParams, b \in SmallBatches :
           CallVerifyFrames(t, FramesOf(b), IndicesOf(b), Commitment, p)
    \/ \E t \in Threads, p \in AllParams :
           CallDecode(t, <<frame0>>, <<0>>, p, 2)
    \/ \E t \in Threads : Step(t)

Spec == Init /\ [][Next]_vars

\* concurrent callers, one batch per entry point
NextMix ==
    \/ \E t \in Threads, p \in AllParams : CallGetKzgVerifier(t, p)
    \/ \E t \in Threads, p \in {pB, pInv} : CallNewKzgVerifier(t, p)
    \/ \E t \in Threads, p \in {pA} :
           CallVerifyFrames(t, <<frame0, frameBad>>, <<0, 1>>, Commitment, p)
    \/ \E t \in Threads, p \in {pB} :
           CallDecode(t, <<frame0>>, <<0>>, p, 2)
    \/ \E t \in Threads : Step(t)

\* every thread keeps running, and sync.Mutex hands the lock to a waiter that
\* keeps finding it free (its starvation mode)
FairSpec ==
    Init /\ [][NextMix]_vars /\ \A t \in Threads : WF_vars(Step(t)) /\ SF_vars(Lock(t))

DecodePairs == {<<frame0, 0>>, <<frame1, 1>>, <<frameBad, 0>>, <<frame0, 2>>}
DecodeBatches == SeqsUpTo(DecodePairs, MaxBatch)

BlobCommitments ==
    [LengthCommitment : LengthCommits, LengthProof : LengthProofs, Length : Lengths]

\* one caller at a time, over the full input sets
NextSeq ==
    \E t \in {CHOOSE u \in Threads : TRUE} :
        \/ /\ calls < MaxSeqCalls
           /\ \/ \E p \in AllParams : CallGetKzgVerifier(t, p)
              \/ \E p \in AllParams : CallNewKzgVerifier(t, p)
              \/ \E p \in AllParams, b \in Batches :
                     CallVerifyFrames(t, FramesOf(b), IndicesOf(b), Commitment, p)
              \/ \E p \in AllParams, b \in DecodeBatches, m \in MaxInputSizes :
                     CallDecode(t, FramesOf(b), IndicesOf(b), p, m)
              \/ \E lc \in LengthCommits, lp \in LengthProofs, n \in Lengths :
                     DoVerifyCommit(t, lc, lp, n)
              \/ \E c \in BlobCommitments : DoVerifyBlobLength(t, c)
        \/ Step(t)

SpecSeq == Init /\ [][NextSeq]_vars

----------------------------------------------------------------------------
(* Properties *)

Done(t) == pc[t] = "done"
InCS(t) == pc[t] \in {"lookup", "construct", "unlock"}
Constructible(p) == Validate(p) /\ ext[p] = "ok"
CachedBuilds(p) ==
    {i \in 1..Len(heap) : heap[i].params = p /\ heap[i].by = "GetKzgVerifier"}
CachedRefs == {ParametrizedVerifiers[p] : p \in AllParams} \ {0}

\* a thread holding the result of a GetKzgVerifier call
GotVerifier(t) ==
    \/ Done(t) /\ op[t] = "GetKzgVerifier"
    \/ pc[t] \in {"loop", "decode"}

\* C1 as stated: for every params that passes validation, the GetKzgVerifier calls
\* construct one context for it and every call returns that cached reference.
C1_AsStated ==
    \A t \in Threads :
        (GotVerifier(t) /\ Validate(arg[t].params)) =>
            /\ err[t] = Nil
            /\ ver[t] # 0
            /\ ver[t] = ParametrizedVerifiers[arg[t].params]
            /\ Cardinality(CachedBuilds(arg[t].params)) = 1

\* C1 amended: for every params that passes validation and whose construction
\* succeeds, the GetKzgVerifier calls of any number of threads construct a context
\* for it exactly once, inside the lock, the cache entry is that construction, and
\* every call returns it.
C1_OneConstruction ==
    /\ \A t \in Threads : pc[t] = "construct" => mu = t
    /\ \A p \in AllParams :
           /\ Cardinality(CachedBuilds(p)) <= 1
           /\ ParametrizedVerifiers[p] # 0 => ParametrizedVerifiers[p] \in CachedBuilds(p)
    /\ \A t \in Threads :
           (GotVerifier(t) /\ Constructible(arg[t].params)) =>
               /\ err[t] = Nil
               /\ ver[t] # 0
               /\ ver[t] = ParametrizedVerifiers[arg[t].params]
               /\ Cardinality(CachedBuilds(arg[t].params)) = 1

\* two threads hold the result of GetKzgVerifier for the same params at once,
\* another context having been built besides theirs
C1_Witness ==
    \E t1, t2 \in Threads :
        /\ t1 # t2
        /\ Done(t1) /\ Done(t2)
        /\ op[t1] = "GetKzgVerifier" /\ op[t2] = "GetKzgVerifier"
        /\ arg[t1].params = arg[t2].params
        /\ ver[t1] # 0 /\ ver[t1] = ver[t2]
        /\ Len(heap) > 1

\* C2: GetKzgVerifier and NewKzgVerifier return an error and no context for params
\* that fail validation, and a call that ends in an error (failed validation or
\* failed construction) leaves the cache and the allocated contexts as they were.
C2_FailureLeavesCache ==
    /\ [](\A t \in Threads :
             (Done(t) /\ op[t] \in {"GetKzgVerifier", "NewKzgVerifier"}
                      /\ ~Validate(arg[t].params)) =>
                 (err[t] # Nil /\ ver[t] = 0))
    /\ [][\A t \in Threads :
             /\ (pc[t] \in {"lookup", "construct"} /\ pc'[t] = "unlock" /\ err'[t] # Nil) =>
                    (ParametrizedVerifiers' = ParametrizedVerifiers /\ heap' = heap)
             /\ (pc[t] # pc'[t] /\ op[t] \in {"GetKzgVerifier", "NewKzgVerifier"}
                                /\ ~Validate(arg[t].params)) =>
                    ParametrizedVerifiers' = ParametrizedVerifiers]_vars

\* with an entry in the cache, one call has failed validation and another has
\* failed in construction
C2_Witness ==
    \E t1, t2 \in Threads :
        /\ Done(t1) /\ op[t1] = "NewKzgVerifier" /\ ~Validate(arg[t1].params)
        /\ err[t1] = ErrInvalidParams
        /\ Done(t2) /\ op[t2] = "GetKzgVerifier" /\ err[t2] \in {ErrKZGSettings, ErrEncoder}
        /\ CachedRefs # {}

\* C6 as stated: for every params that passes validation NewKzgVerifier returns a
\* fresh context that is not the cached one.
C6_AsStated ==
    \A t \in Threads :
        (Done(t) /\ op[t] = "NewKzgVerifier" /\ Validate(arg[t].params)) =>
            /\ err[t] = Nil
            /\ ver[t] # 0
            /\ ver[t] \notin CachedRefs

\* C6 amended: for every params that passes validation and whose construction
\* succeeds, NewKzgVerifier returns a context of its own for these params, neither
\* cached nor held by another caller, and no step of NewKzgVerifier changes the
\* cache.
C6_NewBypassesCache ==
    /\ [](\A t \in Threads :
             (Done(t) /\ op[t] = "NewKzgVerifier" /\ Constructible(arg[t].params)) =>
                 /\ err[t] = Nil
                 /\ ver[t] \in 1..Len(heap)
                 /\ heap[ver[t]].params = arg[t].params
                 /\ ver[t] \notin CachedRefs
                 /\ \A u \in Threads \ {t} : ver[u] # ver[t])
    /\ [][\A t \in Threads :
             (pc[t] # pc'[t] /\ op[t] = "NewKzgVerifier") =>
                 ParametrizedVerifiers' = ParametrizedVerifiers]_vars

\* NewKzgVerifier has returned a context for params that are in the cache
C6_Witness ==
    \E t \in Threads :
        /\ Done(t) /\ op[t] = "NewKzgVerifier" /\ ver[t] # 0
        /\ ParametrizedVerifiers[arg[t].params] # 0
        /\ ParametrizedVerifiers[arg[t].params] # ver[t]

\* C10: at most one thread is between Lock and Unlock and mu names it; the lock
\* is free again after every return of GetKzgVerifier and NewKzgVerifier; a thread
\* acquires only a free lock; and every call that waits for the lock returns.
C10_MutexDiscipline ==
    /\ [](\A t, u \in Threads :
             /\ (InCS(t) /\ InCS(u)) => t = u
             /\ InCS(t) <=> mu = t)
    /\ [][\A t \in Threads : (pc[t] = "lock" /\ pc'[t] # "lock") => (mu = 0 /\ mu' = t)]_vars
    /\ \A t \in Threads : (pc[t] = "lock") ~> (pc[t] = "done")

\* a thread waits for the lock while the holder is about to return a
\* construction error
C10_Witness ==
    \E t, u \in Threads :
        /\ pc[t] = "lock"
        /\ pc[u] = "unlock" /\ mu = u
        /\ err[u] \in {ErrKZGSettings, ErrEncoder}

\* the context of params, whoever builds it
ContextFor(p) ==
    [NumChunks |-> p.NumChunks,
     ChunkLength |-> p.ChunkLength,
     ExpandedRootsOfUnity |->
         [i \in 0..NumEvaluations(p) |->
             Pow(Scale2RootOfUnity[Log2(NumEvaluations(p))], i)]]

\* the single-frame check of pair i of a call's arguments
FrameErr(a, i) == PVerifyFrame(ContextFor(a.params), a.commit, a.frames[i], a.indices[i]).err

\* the smallest position whose single-frame check fails, 0 when none does
FirstFail(a) ==
    LET bad == {i \in 1..Len(a.frames) : FrameErr(a, i) # Nil}
    IN  IF bad = {} THEN 0 ELSE CHOOSE i \in bad : \A j \in bad : i <= j

Positions(t) == [i \in 1..Len(checked[t]) |-> checked[t][i].pos]
FirstPositions(k) == [i \in 1..k |-> i]

\* the outcome of VerifyFrames with a context: nil after every pair was checked in
\* order, or the error of the first failing pair with no pair checked after it
ShortCircuits(t) ==
    LET k == FirstFail(arg[t])
    IN  IF k = 0
        THEN err[t] = Nil /\ Positions(t) = FirstPositions(Len(arg[t].frames))
        ELSE err[t] = FrameErr(arg[t], k) /\ Positions(t) = FirstPositions(k)

\* C3 as stated: with params that pass validation, VerifyFrames checks the pairs in
\* order and returns nil when all pass, else the error of the first failing one.
C3_AsStated ==
    \A t \in Threads :
        (Done(t) /\ op[t] = "VerifyFrames" /\ Validate(arg[t].params)) => ShortCircuits(t)

\* C3 amended: with params for which GetKzgVerifier returns a context, VerifyFrames
\* checks the pairs in increasing order, returns nil exactly when every pair passes
\* and otherwise the error of the smallest failing position, checking none after
\* it; when GetKzgVerifier fails it returns that error and checks no pair.
C3_FirstFailure ==
    \A t \in Threads :
        (Done(t) /\ op[t] = "VerifyFrames") =>
            IF Constructible(arg[t].params) THEN ShortCircuits(t)
            ELSE /\ checked[t] = <<>>
                 /\ err[t] = IF Validate(arg[t].params)
                             THEN newKzgVerifier(arg[t].params).err
                             ELSE ErrInvalidParams

\* the first pair of a batch of two failed the pairing check and the second,
\* which would have passed, was not checked
C3_Witness ==
    \E t \in Threads :
        /\ Done(t) /\ op[t] = "VerifyFrames"
        /\ Len(arg[t].frames) = 2
        /\ Len(checked[t]) = 1
        /\ err[t] = ErrMultireveal
        /\ FrameErr(arg[t], 2) = Nil

FailedInLoop(t) ==
    Done(t) /\ op[t] = "VerifyFrames" /\ err[t] # Nil /\ checked[t] # <<>>
FailPos(t) == Len(checked[t])
FailChunk(t) == arg[t].indices[FailPos(t)]

\* C4 as stated: two batches that fail at different chunks for the same reason
\* return errors that differ.
C4_AsStated ==
    \A t, u \in Threads :
        (/\ FailedInLoop(t) /\ FailedInLoop(u)
         /\ FailPos(t) # FailPos(u)
         /\ FailChunk(t) # FailChunk(u)) => err[t] # err[u]

\* C4 amended: the error VerifyFrames returns is the failing chunk's single-frame
\* error unchanged, one of the three errors of ParametrizedVerifier.VerifyFrame; it
\* names the reason and not the chunk, so two batches failing for the same reason
\* return equal errors whatever the failing position and chunk number.
C4_BareFrameError ==
    \A t \in Threads :
        FailedInLoop(t) =>
            /\ err[t] = FrameErr(arg[t], FailPos(t))
            /\ err[t] \in {ErrCosetIndex, ErrReadG2, ErrMultireveal}
            /\ \A u \in Threads :
                   (FailedInLoop(u) /\ FrameErr(arg[u], FailPos(u)) = FrameErr(arg[t], FailPos(t)))
                       => err[u] = err[t]

\* two batches have failed at different positions and chunk numbers with one error
C4_Witness ==
    \E t, u \in Threads :
        /\ FailedInLoop(t) /\ FailedInLoop(u)
        /\ FailPos(t) # FailPos(u)
        /\ FailChunk(t) # FailChunk(u)
        /\ err[t] = err[u]

\* a step of thread t
StepOf(t) == pc'[t] # pc[t] \/ ind'[t] # ind[t]

\* C5 as stated: no step of a VerifyFrames call changes the cache or the SRS.
C5_AsStated ==
    [][\A t \in Threads :
          (op[t] = "VerifyFrames" /\ StepOf(t)) =>
              (ParametrizedVerifiers' = ParametrizedVerifiers /\ Srs' = Srs)]_vars

\* C5 amended: two verifications of the same frames with the same arguments give
\* the same result; the single-frame checks of the loop change neither the cache,
\* the contexts nor the SRS; and the one change a VerifyFrames call makes to the
\* cache is the entry it adds for its own params when they were not cached: no
\* entry is replaced or removed, and the SRS stays as it is.
C5_VerifyEffects ==
    /\ [](\A t, u \in Threads :
             (Done(t) /\ Done(u) /\ op[t] = "VerifyFrames" /\ op[u] = "VerifyFrames"
                      /\ arg[t] = arg[u]) => err[t] = err[u])
    /\ [][\A t \in Threads :
             (op[t] = "VerifyFrames" /\ StepOf(t)) =>
                 /\ Srs' = Srs
                 /\ pc[t] = "loop" =>
                        (ParametrizedVerifiers' = ParametrizedVerifiers /\ heap' = heap)
                 /\ \A p \in AllParams :
                        ParametrizedVerifiers'[p] # ParametrizedVerifiers[p] =>
                            /\ p = arg[t].params
                            /\ ParametrizedVerifiers[p] = 0
                            /\ pc[t] = "construct"]_vars

\* the same frames were verified twice with one result, the first verification
\* having added the context of its params to the cache
C5_Witness ==
    \E t, u \in Threads :
        /\ t # u
        /\ Done(t) /\ Done(u) /\ op[t] = "VerifyFrames" /\ op[u] = "VerifyFrames"
        /\ arg[t] = arg[u]
        /\ Len(arg[t].frames) > 0
        /\ err[t] = err[u]
        /\ calls = 2
        /\ ParametrizedVerifiers[arg[t].params] # 0

IsVerifyCommit(t) == Done(t) /\ op[t] \in {"VerifyCommit", "VerifyBlobLength"}

\* e(challenge, lengthCommitment) == e(G1 generator, proof) with the challenge the
\* power k of the secret
LowDegreeEquation(k, lengthCommit, proof) ==
    (Pow(Secret, k) * lengthCommit) % Modulus = proof % Modulus

\* C7 as stated: only a length <= SRSOrder is accepted, for such a length the
\* result is nil exactly when the pairing check at index SRSOrder - length holds,
\* and the index asked of the SRS is always in 0..SRSOrder.
C7_AsStated ==
    \A t \in Threads :
        IsVerifyCommit(t) =>
            /\ ChallengeIndex(arg[t].length) \in 0..SRSOrder
            /\ err[t] = Nil => arg[t].length <= SRSOrder
            /\ arg[t].length <= SRSOrder =>
                   (err[t] = Nil <=>
                        LowDegreeEquation(SRSOrder - arg[t].length,
                                          arg[t].lengthCommit, arg[t].lengthProof))

\* C7 amended: only a length <= SRSOrder is accepted; for such a length the index
\* asked of the SRS is SRSOrder - length, in 0..SRSOrder, and the result is nil
\* exactly when the pairing check at that index holds; for a length > SRSOrder the
\* unsigned subtraction wraps to an index above SRSOrder, which is asked of the SRS
\* and refused by it, so the call returns the read error.
C7_LowDegree ==
    \A t \in Threads :
        IsVerifyCommit(t) =>
            /\ err[t] = Nil => arg[t].length <= SRSOrder
            /\ arg[t].length <= SRSOrder =>
                   /\ ChallengeIndex(arg[t].length) = SRSOrder - arg[t].length
                   /\ ChallengeIndex(arg[t].length) \in 0..SRSOrder
                   /\ err[t] = Nil <=>
                          LowDegreeEquation(SRSOrder - arg[t].length,
                                            arg[t].lengthCommit, arg[t].lengthProof)
                   /\ err[t] # Nil => err[t] = ErrLowDegree
            /\ arg[t].length > SRSOrder =>
                   /\ ChallengeIndex(arg[t].length) = UintMod + SRSOrder - arg[t].length
                   /\ ChallengeIndex(arg[t].length) > SRSOrder
                   /\ err[t] = ErrReadG1

\* the maximum length was accepted with the challenge at index 0
C7_Witness ==
    \E t \in Threads :
        /\ Done(t) /\ op[t] = "VerifyBlobLength"
        /\ arg[t].length = SRSOrder
        /\ arg[t].lengthCommit # 0
        /\ err[t] = Nil

\* the coefficient sequences of the chunks, in their order
CoeffsOf(chunks) == [i \in 1..Len(chunks) |-> [Coeffs |-> chunks[i].Coeffs]]

\* Decode returned what the coder of the cached context returns for the
\* coefficients, the indices and the limit it was given
DelegatesToCoder(t) ==
    LET r == EncoderDecode(ContextFor(arg[t].params), CoeffsOf(arg[t].frames),
                           arg[t].indices, arg[t].maxInputSize)
    IN  /\ ver[t] # 0
        /\ ver[t] = ParametrizedVerifiers[arg[t].params]
        /\ heap[ver[t]].obj = ContextFor(arg[t].params)
        /\ coder[t] = <<<<CoeffsOf(arg[t].frames), arg[t].indices, arg[t].maxInputSize>>>>
        /\ out[t] = r.bytes
        /\ err[t] = r.err

\* C8 as stated: for params that fail validation Decode returns an error without
\* invoking the coder; for params that pass it returns the coder's result.
C8_AsStated ==
    \A t \in Threads :
        (Done(t) /\ op[t] = "Decode") =>
            IF Validate(arg[t].params) THEN DelegatesToCoder(t)
            ELSE err[t] # Nil /\ coder[t] = <<>>

\* C8 amended: for params that fail validation, or whose context cannot be
\* constructed, Decode returns that error without invoking the coder; otherwise it
\* obtains the cached-or-created context and returns exactly the result of its
\* coder's decode on the chunks' coefficient sequences in their order, the indices
\* position by position and maxInputSize, proofs ignored.
C8_DecodeDelegates ==
    \A t \in Threads :
        (Done(t) /\ op[t] = "Decode") =>
            IF Constructible(arg[t].params) THEN DelegatesToCoder(t)
            ELSE /\ coder[t] = <<>>
                 /\ out[t] = <<>>
                 /\ err[t] = IF Validate(arg[t].params)
                             THEN newKzgVerifier(arg[t].params).err
                             ELSE ErrInvalidParams

\* two chunks were decoded and the bytes cut at maxInputSize
C8_Witness ==
    \E t \in Threads :
        /\ Done(t) /\ op[t] = "Decode"
        /\ err[t] = Nil
        /\ Len(arg[t].frames) = 2
        /\ arg[t].indices = <<1, 0>>
        /\ Len(out[t]) = arg[t].maxInputSize
        /\ out[t] # <<>>

RECURSIVE EvalAtSecret(_, _)
EvalAtSecret(coeffs, k) ==
    IF k = 0 THEN 0
    ELSE (EvalAtSecret(coeffs, k - 1) + coeffs[k] * Pow(Secret, k - 1)) % Modulus

\* e(commitment - interpolation, G2 generator) == e(proof, [s^n - x^n])
FrameEquation(f, commit, x) ==
    LET n == Len(f.Coeffs)
    IN  (commit + Modulus - EvalAtSecret(f.Coeffs, n)) % Modulus
            = (f.Proof * (Pow(Secret, n) + Modulus - Pow(x, n))) % Modulus

====
